---------------------------- MODULE Spec2Model ----------------------------
(***************************************************************************)
(* A model of tools/cpp_csv/cpp_csv.cpp: the CSV line tokenizer            *)
(* (parse_csv_line), the file reader (read_csv_impl), the per-cell         *)
(* validator (validation::trim, validation::validate_value) and the two    *)
(* row-mapping entry points (read_csv_dicts, read_and_validate_csv).       *)
(*                                                                         *)
(* A std::string is a sequence of one-character strings.  Indices are      *)
(* 1-based here and 0-based in the source, so the source's                 *)
(* "i + 1 < line.size()" reads "i + 1 <= Len(line)".                       *)
(***************************************************************************)
EXTENDS Integers, Sequences, FiniteSets, TLC

VARIABLES
    cells,          \* tokenizer scenario: the row of cells the line was joined from
    line,           \* parse_csv_line: the line argument
    delimiter,      \* parse_csv_line / read_csv_impl: the delimiter argument
    i,              \* the running loop's index: parse_csv_line's i (1-based), or the
                    \* row loops' i (as in the source: rows[i] is the row i + 1 here)
    cell,           \* parse_csv_line: the cell being accumulated
    row,            \* parse_csv_line: the cells finished so far
    in_quotes,      \* parse_csv_line: the quoting state
    phys,           \* reader scenario: the physical lines the file was written from
    file,           \* read_csv_impl: the content of the file behind the stream
    is_open,        \* read_csv_impl: file.is_open()
    fpos,           \* read_csv_impl: the stream's read position (1-based)
    result,         \* read_csv_impl: the rows read so far
    value,          \* validate_value: the cell text
    rule,           \* validate_value: the column's ValidationRule
    row_idx,        \* validate_value: the data row's index
    column,         \* validate_value: the column name
    validated,      \* validate_value: the py::object returned
    errors,         \* the std::vector<ValidationError> being filled
    mode,           \* which entry point runs: read_and_validate_csv or read_csv_dicts
    rows,           \* the raw table read_csv_impl returned
    rules,          \* read_and_validate_csv: the compiled schema, name -> rule
    column_indices, \* read_and_validate_csv: the map name -> header index
    validated_data, \* read_and_validate_csv: the typed rows built so far
    py_rows,        \* read_csv_dicts: the records built so far
    pc              \* where the running function stands

tokVars == <<cells, i, cell, row, in_quotes>>
readVars == <<phys, file, is_open, fpos, result>>
valVars == <<value, rule, row_idx, column, validated>>
tabVars == <<mode, rows, rules, column_indices, validated_data, py_rows>>
vars == <<tokVars, readVars, valVars, tabVars, line, delimiter, errors, pc>>

---------------------------------------------------------------------------
(* Characters *)

Quote == "\""
CR == "\r"
LF == "\n"

\* All strings over the alphabet S of length at most n.
Strs(S, n) == UNION {[1..k -> S] : k \in 0..n}

RECURSIVE Concat(_)
\* The concatenation of a sequence of strings.
Concat(ss) == IF ss = <<>> THEN <<>> ELSE Head(ss) \o Concat(Tail(ss))

---------------------------------------------------------------------------
(* Python values and doubles *)

\* py::none(), py::str and a Python float.
None == [t |-> "none"]
Str(str) == [t |-> "str", s |-> str]
Num(x) == [t |-> "num", x |-> x]

RECURSIVE Pow10(_)
Pow10(k) == IF k = 0 THEN 1 ELSE 10 * Pow10(k - 1)

\* A double is NaN, an infinity, or the finite number n / 10^e, kept with
\* the least e (every numeral short enough to occur here names a different
\* double, and rounding keeps their order).
NaN == [k |-> "nan"]
Inf(neg) == [k |-> "inf", neg |-> neg]
RECURSIVE Fin(_, _)
Fin(n, e) ==
    IF e > 0 /\ n % 10 = 0 THEN Fin(n \div 10, e - 1)
    ELSE [k |-> "fin", n |-> n, e |-> e]

\* a < b on doubles: false when either is NaN.
Less(a, b) ==
    CASE a.k = "nan" \/ b.k = "nan" -> FALSE
      [] a.k = "inf" -> a.neg /\ ~(b.k = "inf" /\ b.neg)
      [] b.k = "inf" -> ~b.neg
      [] OTHER -> a.n * Pow10(b.e) < b.n * Pow10(a.e)

\* The state of the validator's variables while another function runs.
NoRule == [type |-> "TEXT", min_value |-> Fin(0, 0), max_value |-> Fin(0, 0),
           valid_options |-> {}]

\* The row mappers' variables while another function runs.
TabIdle ==
    /\ mode = "none"
    /\ rows = <<>>
    /\ rules = <<>>
    /\ column_indices = <<>>
    /\ validated_data = <<>>
    /\ py_rows = <<>>

ValIdle ==
    /\ value = <<>>
    /\ rule = NoRule
    /\ row_idx = 0
    /\ column = ""
    /\ validated = None

---------------------------------------------------------------------------
(* parse_csv_line *)

\* The scanner's locals before the loop.
parse_init == [i |-> 1, cell |-> <<>>, row |-> <<>>, in_quotes |-> FALSE]

\* A scan that splits at a delimiter whatever the quoting state.
parse_step_noquote(s, ln, d) ==
    LET c == ln[s.i] IN
    IF c = Quote
    THEN IF s.in_quotes /\ s.i + 1 <= Len(ln) /\ ln[s.i + 1] = Quote
         THEN [s EXCEPT !.cell = Append(@, Quote), !.i = @ + 2]
         ELSE [s EXCEPT !.in_quotes = ~@, !.i = @ + 1]
    ELSE IF c = d
         THEN [s EXCEPT !.row = Append(@, s.cell), !.cell = <<>>, !.i = @ + 1]
         ELSE [s EXCEPT !.cell = Append(@, c), !.i = @ + 1]

\* A scan that forgets the escaped pair: every quote toggles.
parse_step_noescape(s, ln, d) ==
    LET c == ln[s.i] IN
    IF c = Quote
    THEN [s EXCEPT !.in_quotes = ~@, !.i = @ + 1]
    ELSE IF c = d /\ ~s.in_quotes
         THEN [s EXCEPT !.row = Append(@, s.cell), !.cell = <<>>, !.i = @ + 1]
         ELSE [s EXCEPT !.cell = Append(@, c), !.i = @ + 1]

\* One iteration of the for loop, at index s.i <= Len(ln).
parse_step(s, ln, d) ==
    LET c == ln[s.i] IN
    IF c = Quote
    THEN IF s.in_quotes /\ s.i + 1 <= Len(ln) /\ ln[s.i + 1] = Quote
         THEN [s EXCEPT !.cell = Append(@, Quote), !.i = @ + 2]
         ELSE [s EXCEPT !.in_quotes = ~@, !.i = @ + 1]
    ELSE IF c = d /\ ~s.in_quotes
         THEN [s EXCEPT !.row = Append(@, s.cell), !.cell = <<>>, !.i = @ + 1]
         ELSE [s EXCEPT !.cell = Append(@, c), !.i = @ + 1]

RECURSIVE parse_loop(_, _, _)
\* The for loop, run from state s to the end of the line.
parse_loop(s, ln, d) ==
    IF s.i <= Len(ln) THEN parse_loop(parse_step(s, ln, d), ln, d) ELSE s

\* The whole function: the loop, then the last cell is always appended.
parse_csv_line(ln, d) ==
    LET s == parse_loop(parse_init, ln, d) IN Append(s.row, s.cell)

---------------------------------------------------------------------------
(* The tokenizer run one character at a time *)

MaxLineLen == 4
MaxJoinCells == 2
MaxJoinCellLen == 1

TokChars == {"a", ",", Quote}
Delimiters == {",", ";", Quote}

\* The spec's two quoting examples: a,"b,c",d and a,"b""c",d
ExampleEmbedded == <<"a", ",", Quote, "b", ",", "c", Quote, ",", "d">>
ExampleEscaped == <<"a", ",", Quote, "b", Quote, Quote, "c", Quote, ",", "d">>

\* The cells joined by the delimiter (the inverse the round trip is about).
RECURSIVE Join(_, _)
Join(cs, d) ==
    IF cs = <<>> THEN <<>>
    ELSE IF Len(cs) = 1 THEN cs[1]
    ELSE cs[1] \o <<d>> \o Join(Tail(cs), d)

TokRows ==
    UNION {[1..k -> Strs(TokChars, MaxJoinCellLen)] : k \in 0..MaxJoinCells}
      \cup {<<ln>> : ln \in Strs(TokChars, MaxLineLen)}
      \cup {<<ExampleEmbedded>>, <<ExampleEscaped>>}

\* The reader's variables while another function runs.
ReadIdle ==
    /\ phys = <<>>
    /\ file = <<>>
    /\ is_open = FALSE
    /\ fpos = 1
    /\ result = <<>>

InitTok ==
    /\ TabIdle
    /\ ReadIdle
    /\ ValIdle
    /\ errors = <<>>
    /\ cells \in TokRows
    /\ delimiter \in Delimiters
    /\ line = Join(cells, delimiter)
    /\ i = parse_init.i
    /\ cell = parse_init.cell
    /\ row = parse_init.row
    /\ in_quotes = parse_init.in_quotes
    /\ pc = "scan"

\* One iteration of parse_csv_line's loop.
ScanChar ==
    /\ pc = "scan"
    /\ i <= Len(line)
    /\ LET s == parse_step([i |-> i, cell |-> cell, row |-> row,
                            in_quotes |-> in_quotes], line, delimiter)
       IN /\ i' = s.i
          /\ cell' = s.cell
          /\ row' = s.row
          /\ in_quotes' = s.in_quotes
    /\ UNCHANGED <<cells, line, delimiter, pc, readVars, valVars, tabVars, errors>>

\* An end of loop that appends the last cell only when it is not empty.
ScanEnd_SkipEmpty ==
    /\ pc = "scan"
    /\ i > Len(line)
    /\ row' = IF cell = <<>> THEN row ELSE Append(row, cell)
    /\ cell' = <<>>
    /\ pc' = "done"
    /\ UNCHANGED <<cells, line, delimiter, i, in_quotes, readVars, valVars, tabVars, errors>>

\* The loop is over: the last cell is appended and the row returned.
ScanEnd ==
    /\ pc = "scan"
    /\ i > Len(line)
    /\ row' = Append(row, cell)
    /\ cell' = <<>>
    /\ pc' = "done"
    /\ UNCHANGED <<cells, line, delimiter, i, in_quotes, readVars, valVars, tabVars, errors>>

NextTok == ScanChar \/ ScanEnd

SpecTok == InitTok /\ [][NextTok]_vars

---------------------------------------------------------------------------
(* Claims about the tokenizer (checked under SpecTok) *)

Odd(n) == n % 2 = 1

\* The number of quote characters among the first n characters of ln.
NQuotes(ln, n) == Cardinality({k \in 1..n : ln[k] = Quote})

\* Position k is the second quote of an escaped pair: the scan jumps over it.
Skipped(ln, k) ==
    /\ k > 1
    /\ ln[k] = Quote
    /\ ln[k - 1] = Quote
    /\ Odd(NQuotes(ln, k - 2))

\* The positions up to n holding a delimiter character that the scan meets
\* while in_quotes is false.
MetUnquoted(ln, d, n) ==
    {k \in 1..n : ln[k] = d /\ ~Skipped(ln, k) /\ ~Odd(NQuotes(ln, k - 1))}

\* While scanning, in_quotes is the parity of the quotes already consumed.
InQuotesIsParity == pc = "scan" => in_quotes = Odd(NQuotes(line, i - 1))

\* While scanning, the row holds one cell per unquoted delimiter met so far,
\* and the scan can always go on.
C1_Scan ==
    pc = "scan" =>
        /\ i \in 1..(Len(line) + 1)
        /\ Len(row) = Cardinality(MetUnquoted(line, delimiter, i - 1))
        /\ ENABLED NextTok

\* What the row returned looks like.
C1_Final ==
    pc = "done" =>
        /\ Len(row) >= 1
        /\ Len(row) = 1 + Cardinality(MetUnquoted(line, delimiter, Len(line)))
        /\ (line = <<>> => row = << <<>> >>)
        /\ (Len(line) \in MetUnquoted(line, delimiter, Len(line))
              => row[Len(row)] = <<>>)

\* C1 as stated: for every line and ANY delimiter, the row returned is
\* non-empty and has 1 + (the number of delimiter characters the scan meets
\* while in_quotes is false) cells; tokenize("") = [""]; a trailing unquoted
\* delimiter gives a trailing empty cell.
C1_Original == C1_Final

\* C1 amended: for every line and every delimiter other than the double
\* quote, the scan never fails (it can always take its next step until it
\* returns), and the row returned is as C1 says.  (A quote is always handled
\* as a quote, never as a delimiter.)
C1_Amended == delimiter # Quote => (InQuotesIsParity /\ C1_Scan /\ C1_Final)

\* "," with a trailing comma: one delimiter inside quotes, one outside, and a
\* trailing empty cell.
C1_Witness ==
    /\ pc = "done"
    /\ delimiter = ","
    /\ line = <<Quote, ",", Quote, ",">>
    /\ row = << <<",">>, <<>> >>

\* What one loop iteration does with the character at i, case by case.
C2_Step ==
    (pc = "scan" /\ i <= Len(line)) =>
        LET c == line[i]
            pair == in_quotes /\ i + 1 <= Len(line) /\ line[i + 1] = Quote
        IN /\ (c = Quote /\ pair) =>
                 /\ cell' = Append(cell, Quote)
                 /\ i' = i + 2
                 /\ in_quotes' = in_quotes
                 /\ row' = row
           /\ (c = Quote /\ ~pair) =>
                 /\ cell' = cell
                 /\ i' = i + 1
                 /\ in_quotes' = ~in_quotes
                 /\ row' = row
           /\ (c # Quote /\ c = delimiter /\ in_quotes) =>
                 /\ cell' = Append(cell, c)
                 /\ row' = row
                 /\ in_quotes' = in_quotes
           /\ (c # Quote /\ c # delimiter) =>
                 /\ cell' = Append(cell, c)
                 /\ row' = row
                 /\ in_quotes' = in_quotes

\* What the character at position k of ln contributes to the output, "|"
\* standing for a cell boundary.
Emitted(ln, d, k) ==
    IF ln[k] = Quote
    THEN IF Odd(NQuotes(ln, k - 1)) /\ k < Len(ln) /\ ln[k + 1] = Quote
         THEN <<Quote>>
         ELSE <<>>
    ELSE IF ln[k] = d /\ ~Odd(NQuotes(ln, k - 1)) THEN <<"|">> ELSE <<ln[k]>>

C2_Final ==
    pc = "done" =>
        /\ Join(row, "|") = Concat([k \in 1..Len(line) |-> Emitted(line, delimiter, k)])
        /\ (line = ExampleEmbedded /\ delimiter = ",") =>
              row = << <<"a">>, <<"b", ",", "c">>, <<"d">> >>
        /\ (line = ExampleEscaped /\ delimiter = ",") =>
              row = << <<"a">>, <<"b", Quote, "c">>, <<"d">> >>

\* C2: a quote reaches a cell only as the one literal of an escaped pair (a
\* quote met in quotes and followed by a quote, both consumed); any other
\* quote only toggles in_quotes; a delimiter met in quotes is appended and
\* does not split; any other character is copied verbatim.  Hence the
\* output is the line with those quotes dropped and the unquoted delimiters
\* turned into cell boundaries, and the two examples of the spec hold.
C2_Quoting == [][C2_Step]_vars /\ [](C2_Final) /\ [](InQuotesIsParity)

C2_Witness ==
    /\ pc = "done"
    /\ delimiter = ","
    /\ line = ExampleEscaped
    /\ row = << <<"a">>, <<"b", Quote, "c">>, <<"d">> >>

\* No cell of cs holds the character d or a quote.
PlainCells(cs, d) ==
    \A k \in 1..Len(cs) : \A n \in 1..Len(cs[k]) : cs[k][n] \notin {d, Quote}

\* C3 as stated: for ANY sequence of cells without delimiter and quote
\* characters, and any delimiter, tokenizing the joined cells returns them.
C3_Original == (pc = "done" /\ PlainCells(cells, delimiter)) => row = cells

\* C3 amended: the same for a row of at least one cell and a delimiter other
\* than the double quote.
C3_Amended ==
    (pc = "done" /\ PlainCells(cells, delimiter)
       /\ cells # <<>> /\ delimiter # Quote) => row = cells

\* The row ["a", ""] joined to "a," and read back.
C3_Witness ==
    /\ pc = "done"
    /\ delimiter = ","
    /\ cells = << <<"a">>, <<>> >>
    /\ line = <<"a", ",">>
    /\ row = cells

---------------------------------------------------------------------------
(* read_csv_impl *)

\* The index of the first LF of content at or after pos; Len + 1 if none.
NextLF(content, pos) ==
    IF \E k \in pos..Len(content) : content[k] = LF
    THEN CHOOSE k \in pos..Len(content) :
            /\ content[k] = LF
            /\ \A m \in pos..(k - 1) : content[m] # LF
    ELSE Len(content) + 1

\* std::getline at position pos <= Len(content): the characters up to the
\* next LF, which is consumed and not stored, or up to the end of the file.
getline(content, pos) ==
    LET e == NextLF(content, pos)
    IN [line |-> SubSeq(content, pos, e - 1), next |-> e + 1]

\* The line with one trailing CR removed, if it has one.
strip_cr(ln) ==
    IF ln # <<>> /\ ln[Len(ln)] = CR THEN SubSeq(ln, 1, Len(ln) - 1) ELSE ln

\* A loop body that tokenizes blank lines too.
read_step_keepblank(st, content, d) ==
    LET g == getline(content, st.fpos)
        ln == strip_cr(g.line)
    IN [fpos |-> g.next, line |-> ln,
        result |-> Append(st.result, parse_csv_line(ln, d))]

\* One iteration of the while loop, at a position where getline succeeds.
read_step(st, content, d) ==
    LET g == getline(content, st.fpos)
        ln == strip_cr(g.line)
    IN [fpos |-> g.next, line |-> ln,
        result |-> IF ln = <<>>
                   THEN st.result
                   ELSE Append(st.result, parse_csv_line(ln, d))]

RECURSIVE read_loop(_, _, _)
\* The while loop: getline fails once nothing is left to extract.
read_loop(st, content, d) ==
    IF st.fpos <= Len(content)
    THEN read_loop(read_step(st, content, d), content, d)
    ELSE st

\* The whole function on a file that opens.
read_csv_impl(content, d) ==
    read_loop([fpos |-> 1, line |-> <<>>, result |-> <<>>], content, d).result

---------------------------------------------------------------------------
(* The file reader run one line at a time *)

MaxFileLines == 2
MaxFileLineLen == 2

FileChars == {"a", ",", CR}

\* The file holding the lines ls, each ended by LF; the last one only if nl.
FileOf(ls, nl) ==
    Join(ls, LF) \o (IF nl /\ ls # <<>> THEN <<LF>> ELSE <<>>)

PhysLines == UNION {[1..k -> Strs(FileChars, MaxFileLineLen)] : k \in 0..MaxFileLines}

\* The tokenizer's variables while another function runs.
TokIdle ==
    /\ cells = <<>>
    /\ i = parse_init.i
    /\ cell = parse_init.cell
    /\ row = parse_init.row
    /\ in_quotes = parse_init.in_quotes

InitRead ==
    /\ TabIdle
    /\ TokIdle
    /\ ValIdle
    /\ errors = <<>>
    /\ delimiter = ","
    /\ line = <<>>
    /\ \/ /\ is_open = TRUE
          /\ phys \in PhysLines
          /\ \E nl \in BOOLEAN : file = FileOf(phys, nl)
       \/ /\ is_open = FALSE
          /\ phys = <<>>
          /\ file = <<>>
    /\ fpos = 1
    /\ result = <<>>
    /\ pc = "open"

\* The file opened.
Open ==
    /\ pc = "open"
    /\ is_open
    /\ pc' = "read"
    /\ UNCHANGED <<tokVars, readVars, valVars, tabVars, line, delimiter, errors>>

\* The file did not open: std::runtime_error.
OpenFail ==
    /\ pc = "open"
    /\ ~is_open
    /\ pc' = "error"
    /\ UNCHANGED <<tokVars, readVars, valVars, tabVars, line, delimiter, errors>>

\* One iteration of read_csv_impl's loop.
ReadLine ==
    /\ pc = "read"
    /\ fpos <= Len(file)
    /\ LET st == read_step([fpos |-> fpos, line |-> line, result |-> result],
                           file, delimiter)
       IN /\ fpos' = st.fpos
          /\ line' = st.line
          /\ result' = st.result
    /\ UNCHANGED <<tokVars, valVars, tabVars, phys, file, is_open, delimiter, errors, pc>>

\* getline fails at the end of the file: the rows are returned.
ReadEnd ==
    /\ pc = "read"
    /\ fpos > Len(file)
    /\ pc' = "done"
    /\ UNCHANGED <<tokVars, readVars, valVars, tabVars, line, delimiter, errors>>

NextRead == Open \/ OpenFail \/ ReadLine \/ ReadEnd

SpecRead == InitRead /\ [][NextRead]_vars

---------------------------------------------------------------------------
(* Claims about the file reader (checked under SpecRead) *)

\* The physical lines that are not empty once at most one trailing CR is
\* removed, each without that CR.
RECURSIVE NonBlank(_)
NonBlank(ls) ==
    IF ls = <<>> THEN <<>>
    ELSE LET ln == Head(ls)
             t == IF ln # <<>> /\ ln[Len(ln)] = CR
                  THEN SubSeq(ln, 1, Len(ln) - 1) ELSE ln
         IN (IF t = <<>> THEN <<>> ELSE <<t>>) \o NonBlank(Tail(ls))

\* The same physical lines, written with CR LF line ends.
WithCR(ls) == [k \in 1..Len(ls) |-> ls[k] \o <<CR>>]

\* No line ends in CR: every line ends in LF alone.
EndInLFAlone(ls) == \A k \in 1..Len(ls) : ls[k] = <<>> \/ ls[k][Len(ls[k])] # CR

\* C4: the rows read are, in file order, the tokenization of exactly the
\* physical lines that are non-empty after removing at most one trailing CR
\* (an empty line and a line of one CR give no row); the same lines written
\* with CR LF ends give the same rows as with LF ends; rows keep their own
\* lengths.
C4_Reader ==
    pc = "done" =>
        /\ Len(result) = Len(NonBlank(phys))
        /\ \A k \in 1..Len(result) :
              result[k] = parse_csv_line(NonBlank(phys)[k], delimiter)
        /\ EndInLFAlone(phys) =>
              /\ read_csv_impl(FileOf(WithCR(phys), TRUE), delimiter) = result
              /\ read_csv_impl(FileOf(WithCR(phys), FALSE), delimiter) = result

\* The file "a" CR LF CR LF: the first line loses its CR and gives the row
\* ["a"], the second is blank once its CR is removed and gives no row.
C4_Witness ==
    /\ pc = "done"
    /\ file = <<"a", CR, LF, CR, LF>>
    /\ phys = << <<"a", CR>>, <<CR>> >>
    /\ result = << << <<"a">> >> >>

---------------------------------------------------------------------------
(* validation::trim *)

\* std::isspace in the "C" locale.
isspace(c) == c \in {" ", "\t", LF, "\f", CR}

RECURSIVE trim_start(_, _)
\* The first loop: start moves right over white space, up to str.end().
trim_start(str, start) ==
    IF start # Len(str) + 1 /\ isspace(str[start])
    THEN trim_start(str, start + 1)
    ELSE start

RECURSIVE trim_end(_, _, _)
\* The do-while loop, entered with end already decremented once: end moves
\* left while it is right of start and on white space.
trim_end(str, start, end) ==
    IF end - start > 0 /\ isspace(str[end])
    THEN trim_end(str, start, end - 1)
    ELSE end

\* The characters from start to end, both included.  On the empty string
\* the decrement leaves end one before begin(); it is never dereferenced
\* and [start, end + 1) is empty.
trim(str) ==
    LET start == trim_start(str, 1)
        end == trim_end(str, start, (Len(str) + 1) - 1)
    IN SubSeq(str, start, end)

---------------------------------------------------------------------------
(* std::stod on the numerals the model's alphabet can spell: an optional   *)
(* sign, then decimal digits with an optional point, or "inf", "infinity"  *)
(* or "nan" in either case.  (An exponent and a hexadecimal numeral need   *)
(* a digit followed by "e", or "0x", which no cell of the model holds.)    *)

Digits == <<"0", "1", "2", "3", "4", "5", "6", "7", "8", "9">>
IsDigit(c) == \E k \in 1..10 : Digits[k] = c
DigitVal(c) == (CHOOSE k \in 1..10 : Digits[k] = c) - 1

\* tolower on the letters of "infinity" and "nan".
Lower(c) ==
    CASE c = "I" -> "i" [] c = "N" -> "n" [] c = "F" -> "f"
      [] c = "T" -> "t" [] c = "Y" -> "y" [] c = "A" -> "a"
      [] OTHER -> c

\* The word w stands in str at position p, in either case.
MatchAt(str, p, w) ==
    /\ p + Len(w) - 1 <= Len(str)
    /\ \A k \in 1..Len(w) : Lower(str[p + k - 1]) = w[k]

RECURSIVE DigitRun(_, _)
\* The index after the run of digits that starts at p.
DigitRun(str, p) ==
    IF p <= Len(str) /\ IsDigit(str[p]) THEN DigitRun(str, p + 1) ELSE p

RECURSIVE ValOf(_, _, _)
\* The number the digits str[p], ..., str[q - 1] spell.
ValOf(str, p, q) ==
    IF p >= q THEN 0 ELSE 10 * ValOf(str, p, q - 1) + DigitVal(str[q - 1])

\* [ok, num, pos]: ok is false when no conversion is possible (stod throws
\* std::invalid_argument); pos is the number of characters consumed.
stod(str) ==
    LET p0 == trim_start(str, 1)
        signed == p0 <= Len(str) /\ str[p0] \in {"+", "-"}
        neg == signed /\ str[p0] = "-"
        p1 == IF signed THEN p0 + 1 ELSE p0
        q1 == DigitRun(str, p1)
        dot == q1 <= Len(str) /\ str[q1] = "."
        q2 == IF dot THEN DigitRun(str, q1 + 1) ELSE q1
        nfrac == IF dot THEN q2 - (q1 + 1) ELSE 0
        mant == ValOf(str, p1, q1) * Pow10(nfrac)
                  + (IF dot THEN ValOf(str, q1 + 1, q2) ELSE 0)
    IN CASE MatchAt(str, p1, <<"i", "n", "f", "i", "n", "i", "t", "y">>) ->
              [ok |-> TRUE, num |-> Inf(neg), pos |-> p1 + 7]
         [] MatchAt(str, p1, <<"i", "n", "f">>) ->
              [ok |-> TRUE, num |-> Inf(neg), pos |-> p1 + 2]
         [] MatchAt(str, p1, <<"n", "a", "n">>) ->
              [ok |-> TRUE, num |-> NaN, pos |-> p1 + 2]
         [] (q1 - p1) + nfrac = 0 ->
              [ok |-> FALSE, num |-> NaN, pos |-> 0]
         [] OTHER ->
              [ok |-> TRUE,
               num |-> Fin(IF neg THEN 0 - mant ELSE mant, nfrac),
               pos |-> q2 - 1]

---------------------------------------------------------------------------
(* validation::validate_value *)

DefaultMin == 0
DefaultMax == 10

\* A ValidationRule.
Rule(type, min, max, options) ==
    [type |-> type, min_value |-> min, max_value |-> max,
     valid_options |-> options]

\* A ValidationError.
Error(idx, col, val, msg) ==
    [row_index |-> idx, column |-> col, value |-> val, message |-> msg]

MsgNumber == "No es un numero valido"
MsgScale == "No es un numero valido para escala"
MsgOption == "Opcion no valida"
\* "Valor fuera de rango [" << min_value << ", " << max_value << "]"
MsgRange(min, max) == <<"Valor fuera de rango [", min, ", ", max, "]">>

\* A validator without the empty-value check.
validate_value_noempty(val, r, idx, col, errs) ==
    LET trimmed == trim(val)
        n == stod(trimmed)
        fail(msg) == [validated |-> None,
                      errors |-> Append(errs, Error(idx, col, val, msg))]
        pass(v) == [validated |-> v, errors |-> errs]
    IN CASE r.type = "NUMBER" ->
               IF ~n.ok \/ n.pos # Len(trimmed) THEN fail(MsgNumber)
               ELSE pass(Num(n.num))
          [] r.type = "SCALE" ->
               IF ~n.ok \/ n.pos # Len(trimmed) THEN fail(MsgScale)
               ELSE IF Less(n.num, r.min_value) \/ Less(r.max_value, n.num)
                    THEN fail(MsgRange(r.min_value, r.max_value))
                    ELSE pass(Num(n.num))
          [] r.type = "SINGLE" ->
               IF r.valid_options # {} /\ trimmed \notin r.valid_options
               THEN fail(MsgOption)
               ELSE pass(Str(trimmed))
          [] OTHER -> pass(Str(trimmed))

\* [validated, errors]: the object returned and the error vector afterwards.
validate_value(val, r, idx, col, errs) ==
    LET trimmed == trim(val)
        n == stod(trimmed)
        fail(msg) == [validated |-> None,
                      errors |-> Append(errs, Error(idx, col, val, msg))]
        pass(v) == [validated |-> v, errors |-> errs]
    IN IF trimmed = <<>> THEN pass(None)
       ELSE CASE r.type = "NUMBER" ->
                   IF ~n.ok \/ n.pos # Len(trimmed) THEN fail(MsgNumber)
                   ELSE pass(Num(n.num))
              [] r.type = "SCALE" ->
                   IF ~n.ok \/ n.pos # Len(trimmed) THEN fail(MsgScale)
                   ELSE IF Less(n.num, r.min_value) \/ Less(r.max_value, n.num)
                        THEN fail(MsgRange(r.min_value, r.max_value))
                        ELSE pass(Num(n.num))
              [] r.type = "SINGLE" ->
                   IF r.valid_options # {} /\ trimmed \notin r.valid_options
                   THEN fail(MsgOption)
                   ELSE pass(Str(trimmed))
              [] OTHER -> pass(Str(trimmed))

---------------------------------------------------------------------------
(* validate_value called on one cell *)

MaxValueLen == 3

ValueChars == {" ", "-", ".", "1", "5", "x"}

\* The cells of the spec's examples, and the numerals that are not decimal.
ExampleValues ==
    { <<"3", ".", "5">>, <<"3", ".", "5", "x">>, <<"7">>, <<"0">>,
      <<"1", "0">>, <<"1", "1">>, <<"-", "1">>, <<"1", "0", ".", "5">>,
      <<" ", "Y", "e", "s", " ">>, <<"M", "a", "y", "b", "e">>,
      <<"n", "a", "n">>, <<"N", "a", "N">>, <<"-", "n", "a", "n">>,
      <<"i", "n", "f">>, <<"-", "i", "n", "f">>, <<"n", "a">>,
      <<"+", "5">>, <<"\t", "7", CR>> }

Values == Strs(ValueChars, MaxValueLen) \cup ExampleValues

Yes == <<"Y", "e", "s">>
No == <<"N", "o">>

Rules ==
    { Rule("TEXT", Fin(DefaultMin, 0), Fin(DefaultMax, 0), {}),
      Rule("NUMBER", Fin(DefaultMin, 0), Fin(DefaultMax, 0), {}),
      Rule("SCALE", Fin(DefaultMin, 0), Fin(DefaultMax, 0), {}),
      Rule("SCALE", Fin(1, 0), Fin(5, 0), {}),
      Rule("SCALE", Fin(-1, 0), Fin(15, 1), {}),
      Rule("SINGLE", Fin(DefaultMin, 0), Fin(DefaultMax, 0), {}),
      Rule("SINGLE", Fin(DefaultMin, 0), Fin(DefaultMax, 0), {Yes, No}),
      Rule("SINGLE", Fin(DefaultMin, 0), Fin(DefaultMax, 0), {<<"1">>, <<"x">>}) }

\* An error recorded for an earlier cell.
EarlierError == Error(1, "A", <<"x">>, MsgNumber)

InitVal ==
    /\ TabIdle
    /\ TokIdle
    /\ ReadIdle
    /\ delimiter = ","
    /\ line = <<>>
    /\ value \in Values
    /\ rule \in Rules
    /\ row_idx \in {1, 2}
    /\ column = "B"
    /\ validated = None
    /\ errors \in {<<>>, <<EarlierError>>}
    /\ pc = "call"

\* validate_value(value, rule, row_idx, column, errors).
Validate ==
    /\ pc = "call"
    /\ LET r == validate_value(value, rule, row_idx, column, errors)
       IN /\ validated' = r.validated
          /\ errors' = r.errors
    /\ pc' = "done"
    /\ UNCHANGED <<tokVars, readVars, tabVars, value, rule, row_idx, column, line, delimiter>>

NextVal == Validate

SpecVal == InitVal /\ [][NextVal]_vars

---------------------------------------------------------------------------
(* Claims about validate_value (checked under SpecVal) *)

\* The cell holds white space only.
AllSpace(v) == \A k \in 1..Len(v) : isspace(v[k])

\* The cell from its first to its last character that is not white space.
Trimmed(v) ==
    IF AllSpace(v) THEN <<>>
    ELSE LET solid == {k \in 1..Len(v) : ~isspace(v[k])}
             first == CHOOSE k \in solid : \A m \in solid : k <= m
             last == CHOOSE k \in solid : \A m \in solid : m <= k
         IN SubSeq(v, first, last)

\* The numeric parse consumes the whole of t.
FullNumber(t) == stod(t).ok /\ stod(t).pos = Len(t)

\* a <= b on doubles, as mathematics has it: never true of a NaN.
Leq(a, b) == a.k # "nan" /\ b.k # "nan" /\ ~Less(b, a)

\* t lies within the bounds of the SCALE rule r.
InScale(r, t) ==
    /\ FullNumber(t)
    /\ Leq(r.min_value, stod(t).num)
    /\ Leq(stod(t).num, r.max_value)

\* The spec's table: the non-empty trimmed text t is valid for the kind of r.
ValidFor(r, t) ==
    CASE r.type = "NUMBER" -> FullNumber(t)
      [] r.type = "SCALE" -> InScale(r, t)
      [] r.type = "SINGLE" -> r.valid_options = {} \/ t \in r.valid_options
      [] OTHER -> TRUE

\* The call appends exactly one error, for this row, column and cell.
OneErrorAppended ==
    /\ Len(errors') = Len(errors) + 1
    /\ SubSeq(errors', 1, Len(errors)) = errors
    /\ errors'[Len(errors')].row_index = row_idx
    /\ errors'[Len(errors')].column = column
    /\ errors'[Len(errors')].value = value

\* The three outcomes of one call.
C5_Outcome ==
    LET t == Trimmed(value)
    IN CASE t = <<>> -> validated' = None /\ errors' = errors
         [] t # <<>> /\ ValidFor(rule, t) ->
              /\ errors' = errors
              /\ validated' = IF rule.type \in {"NUMBER", "SCALE"}
                              THEN Num(stod(t).num) ELSE Str(t)
         [] OTHER -> validated' = None /\ OneErrorAppended

C5_Examples ==
    rule.type = "NUMBER" =>
        /\ value = <<"3", ".", "5">> =>
              validated' = Num(Fin(35, 1)) /\ errors' = errors
        /\ value = <<"3", ".", "5", "x">> =>
              validated' = None /\ OneErrorAppended
        /\ value = <<>> => validated' = None /\ errors' = errors

\* C5: a cell of a column with a rule ends in exactly one of three ways:
\* empty after trimming, null and no error; valid for the kind, a non-null
\* value (a number for NUMBER and SCALE, the trimmed string for TEXT and
\* SINGLE) and no error; invalid, null and exactly one error with the row
\* index, the column name and the untrimmed cell.  For NUMBER valid means
\* wholly consumed by the numeric parse; TEXT is never invalid.
C5_Original ==
    [][(pc = "call" /\ pc' = "done") => (C5_Outcome /\ C5_Examples)]_vars

\* The cell spells a NaN, which std::stod accepts as a number.
SpellsNaN(v) == FullNumber(Trimmed(v)) /\ stod(Trimmed(v)).num = NaN

\* C5 holds of every cell but a NaN under a SCALE rule (see C6).
C5_ExceptNaN ==
    [][(pc = "call" /\ pc' = "done" /\ ~(rule.type = "SCALE" /\ SpellsNaN(value)))
          => (C5_Outcome /\ C5_Examples)]_vars

\* A NaN under a SCALE rule comes back as a number, with no error.
C5_NaNReached ==
    /\ pc = "done"
    /\ rule.type = "SCALE"
    /\ value = <<"n", "a", "n">>
    /\ validated = Num(NaN)
    /\ errors = <<>>

\* What a SCALE rule does with a cell that is not empty once trimmed.
C6_Outcome ==
    LET t == Trimmed(value)
        full == FullNumber(t)
        fits == InScale(rule, t)
    IN /\ (validated'.t = "num") <=> fits
       /\ validated'.t = "num" =>
             /\ validated' = Num(stod(t).num)
             /\ Leq(rule.min_value, validated'.x)
             /\ Leq(validated'.x, rule.max_value)
             /\ errors' = errors
       /\ ~full =>
             /\ validated' = None
             /\ errors' = Append(errors, Error(row_idx, column, value, MsgScale))
       /\ (full /\ ~fits) =>
             /\ validated' = None
             /\ errors' = Append(errors, Error(row_idx, column, value,
                                  MsgRange(rule.min_value, rule.max_value)))
             /\ errors'[Len(errors')].message[2] = rule.min_value
             /\ errors'[Len(errors')].message[4] = rule.max_value

C6_Examples ==
    (rule.min_value = Fin(0, 0) /\ rule.max_value = Fin(10, 0)) =>
        /\ value = <<"7">> => validated' = Num(Fin(7, 0)) /\ errors' = errors
        /\ value = <<"0">> => validated' = Num(Fin(0, 0)) /\ errors' = errors
        /\ value = <<"1", "0">> => validated' = Num(Fin(10, 0)) /\ errors' = errors
        /\ value \in {<<"1", "1">>, <<"-", "1">>} =>
              /\ validated' = None
              /\ errors' = Append(errors, Error(row_idx, column, value,
                                   MsgRange(Fin(0, 0), Fin(10, 0))))

\* C6: under a SCALE rule a cell that is not empty once trimmed gives a
\* number if and only if the whole trimmed string parses as a number v with
\* min <= v <= max, and every number returned lies within the bounds; a
\* parse failure appends one "not a valid number for scale" error, a range
\* failure one "out of range" error naming both bounds, the cell null in
\* both cases; with 0 and 10, "7", "0" and "10" pass, "11" and "-1" fail.
C6_Original ==
    [][(pc = "call" /\ pc' = "done" /\ rule.type = "SCALE"
          /\ Trimmed(value) # <<>>) => (C6_Outcome /\ C6_Examples)]_vars

\* C6 holds of every cell that does not spell a NaN.
C6_ExceptNaN ==
    [][(pc = "call" /\ pc' = "done" /\ rule.type = "SCALE"
          /\ Trimmed(value) # <<>> /\ ~SpellsNaN(value))
          => (C6_Outcome /\ C6_Examples)]_vars

---------------------------------------------------------------------------
(* read_csv_dicts and read_and_validate_csv: one row *)

\* A py::dict is a function from its keys; d[key] = v adds or overwrites.
EmptyDict == <<>>

\* An assignment that leaves a key already present alone.
Put_KeepFirst(d, key, v) ==
    [x \in DOMAIN d \cup {key} |-> IF x \in DOMAIN d THEN d[x] ELSE v]

Put(d, key, v) == [x \in DOMAIN d \cup {key} |-> IF x = key THEN v ELSE d[x]]

RECURSIVE index_loop(_, _, _)
\* column_indices[header[j]] = j, from the given j on (j 0-based).
index_loop(header, j, ci) ==
    IF j < Len(header)
    THEN index_loop(header, j + 1, Put(ci, header[j + 1], j))
    ELSE ci

RECURSIVE pad_loop(_, _, _, _)
\* d[header[j]] = v, from the given j up to the header's end (j 0-based).
pad_loop(header, j, d, v) ==
    IF j < Len(header)
    THEN pad_loop(header, j + 1, Put(d, header[j + 1], v), v)
    ELSE d

\* std::min(header.size(), row.size())
Cols(header, r) == IF Len(header) < Len(r) THEN Len(header) ELSE Len(r)

RECURSIVE dict_cells(_, _, _, _)
\* read_csv_dicts: d[header[j]] = row[j] for the columns both have.
dict_cells(header, r, j, d) ==
    IF j < Cols(header, r)
    THEN dict_cells(header, r, j + 1, Put(d, header[j + 1], Str(r[j + 1])))
    ELSE d

\* read_csv_dicts: the record of one data row, short rows padded with "".
dict_row(header, r) ==
    LET d == dict_cells(header, r, 0, EmptyDict)
    IN IF Len(r) < Len(header) THEN pad_loop(header, Len(r), d, Str(<<>>)) ELSE d

RECURSIVE validate_cells(_, _, _, _, _, _, _)
\* read_and_validate_csv: the columns both the header and the row have, in
\* order: validated when the schema has a rule for the name, else trimmed.
validate_cells(header, r, rls, idx, j, d, errs) ==
    IF j < Cols(header, r)
    THEN LET col_name == header[j + 1]
             cell_value == r[j + 1]
         IN IF col_name \in DOMAIN rls
            THEN LET v == validate_value(cell_value, rls[col_name], idx,
                                         col_name, errs)
                 IN validate_cells(header, r, rls, idx, j + 1,
                                   Put(d, col_name, v.validated), v.errors)
            ELSE validate_cells(header, r, rls, idx, j + 1,
                                Put(d, col_name, Str(trim(cell_value))), errs)
    ELSE [dict |-> d, errors |-> errs]

\* A row body that pads a short row with empty strings, as read_csv_dicts does.
validate_row_padstr(header, r, rls, idx, errs) ==
    LET c == validate_cells(header, r, rls, idx, 0, EmptyDict, errs)
    IN [dict |-> IF Len(r) < Len(header)
                 THEN pad_loop(header, Len(r), c.dict, Str(<<>>))
                 ELSE c.dict,
        errors |-> c.errors]

\* read_and_validate_csv: the typed row of one data row, short rows padded
\* with None, and the error vector afterwards.
validate_row(header, r, rls, idx, errs) ==
    LET c == validate_cells(header, r, rls, idx, 0, EmptyDict, errs)
    IN [dict |-> IF Len(r) < Len(header)
                 THEN pad_loop(header, Len(r), c.dict, None)
                 ELSE c.dict,
        errors |-> c.errors]

RECURSIVE validate_rows(_, _, _, _, _)
\* read_and_validate_csv: the loop over the data rows, from the given i on.
validate_rows(tbl, rls, idx, data, errs) ==
    IF idx < Len(tbl)
    THEN LET v == validate_row(tbl[1], tbl[idx + 1], rls, idx, errs)
         IN validate_rows(tbl, rls, idx + 1, Append(data, v.dict), v.errors)
    ELSE [data |-> data, errors |-> errs]

\* read_and_validate_csv on the raw table tbl: {data, errors}.
read_and_validate_csv(tbl, rls) ==
    IF tbl = <<>> THEN [data |-> <<>>, errors |-> <<>>]
    ELSE validate_rows(tbl, rls, 1, <<>>, <<>>)

---------------------------------------------------------------------------
(* The row mappers run one data row at a time *)

MaxCols == 3
MaxDataCells == 3

NameA == <<"A">>
NameB == <<"B">>
NameC == <<"C">>
TabNames == {NameA, NameB, NameC}

\* An empty cell, a number with leading white space, a word with trailing
\* white space.
TabCells == {<<>>, <<" ", "7">>, <<"x", " ">>}

NameRank(name) == CHOOSE n \in 1..3 : <<NameA, NameB, NameC>>[n] = name

\* The headers of at most MaxCols columns in which a name, where it first
\* occurs, is the first name not used to its left: names may repeat.
Headers ==
    {h \in UNION {[1..k -> TabNames] : k \in 1..MaxCols} :
        \A j \in 1..Len(h) :
            \/ NameRank(h[j]) = 1
            \/ \E m \in 1..(j - 1) : NameRank(h[m]) >= NameRank(h[j]) - 1}

RECURSIVE DataRows(_)
\* The sequences of data rows that hold at most n cells in all.
DataRows(n) ==
    {<<>>} \cup UNION { UNION { {<<r>> \o t : t \in DataRows(n - m)} :
                                 r \in [1..m -> TabCells] } : m \in 1..n }

\* What read_csv_impl can return: no row at all, or a header and data rows.
Tables == {<<>>} \cup {<<h>> \o t : h \in Headers, t \in DataRows(MaxDataCells)}

Schemas ==
    { <<>>,
      NameA :> Rule("NUMBER", Fin(DefaultMin, 0), Fin(DefaultMax, 0), {}),
      (NameA :> Rule("SCALE", Fin(0, 0), Fin(10, 0), {}))
        @@ (NameB :> Rule("SINGLE", Fin(DefaultMin, 0), Fin(DefaultMax, 0), {<<"x">>}))
        @@ (NameC :> Rule("NUMBER", Fin(DefaultMin, 0), Fin(DefaultMax, 0), {})),
      (NameA :> Rule("TEXT", Fin(DefaultMin, 0), Fin(DefaultMax, 0), {}))
        @@ (NameB :> Rule("NUMBER", Fin(DefaultMin, 0), Fin(DefaultMax, 0), {}))
        @@ (NameC :> Rule("SCALE", Fin(0, 0), Fin(5, 0), {})) }

InitTab ==
    /\ TokIdle
    /\ ReadIdle
    /\ ValIdle
    /\ delimiter = ","
    /\ line = <<>>
    /\ rows \in Tables
    /\ \/ mode = "validate" /\ rules \in Schemas
       \/ mode = "dicts" /\ rules = <<>>
    /\ column_indices = <<>>
    /\ validated_data = <<>>
    /\ py_rows = <<>>
    /\ errors = <<>>
    /\ pc = "start"

\* read_and_validate_csv, no row was read: {data: [], errors: []}.
ValidateEmpty ==
    /\ pc = "start"
    /\ mode = "validate"
    /\ rows = <<>>
    /\ pc' = "done"
    /\ UNCHANGED <<tokVars, readVars, valVars, tabVars, line, delimiter, errors>>

\* read_and_validate_csv: the header is taken and the index map built.
ValidateHeader ==
    /\ pc = "start"
    /\ mode = "validate"
    /\ rows # <<>>
    /\ column_indices' = index_loop(rows[1], 0, EmptyDict)
    /\ i' = 1
    /\ pc' = "rows"
    /\ UNCHANGED <<cells, cell, row, in_quotes, readVars, valVars, mode, rows,
                   rules, validated_data, py_rows, line, delimiter, errors>>

\* A loop body that leaves out a row with an error.
ValidateRow_DropBad ==
    /\ pc = "rows"
    /\ mode = "validate"
    /\ i < Len(rows)
    /\ LET v == validate_row(rows[1], rows[i + 1], rules, i, errors)
       IN /\ validated_data' = IF v.errors = errors
                               THEN Append(validated_data, v.dict)
                               ELSE validated_data
          /\ errors' = v.errors
    /\ i' = i + 1
    /\ UNCHANGED <<cells, cell, row, in_quotes, readVars, valVars, mode, rows,
                   rules, column_indices, py_rows, line, delimiter, pc>>

\* read_and_validate_csv: one iteration of the loop over the data rows.
ValidateRow ==
    /\ pc = "rows"
    /\ mode = "validate"
    /\ i < Len(rows)
    /\ LET v == validate_row(rows[1], rows[i + 1], rules, i, errors)
       IN /\ validated_data' = Append(validated_data, v.dict)
          /\ errors' = v.errors
    /\ i' = i + 1
    /\ UNCHANGED <<cells, cell, row, in_quotes, readVars, valVars, mode, rows,
                   rules, column_indices, py_rows, line, delimiter, pc>>

\* read_and_validate_csv: the loop is over, {data, errors} is returned.
ValidateDone ==
    /\ pc = "rows"
    /\ mode = "validate"
    /\ i >= Len(rows)
    /\ pc' = "done"
    /\ UNCHANGED <<tokVars, readVars, valVars, tabVars, line, delimiter, errors>>

\* read_csv_dicts, no row was read: [].
DictsEmpty ==
    /\ pc = "start"
    /\ mode = "dicts"
    /\ rows = <<>>
    /\ pc' = "done"
    /\ UNCHANGED <<tokVars, readVars, valVars, tabVars, line, delimiter, errors>>

\* read_csv_dicts: the header is taken.
DictsHeader ==
    /\ pc = "start"
    /\ mode = "dicts"
    /\ rows # <<>>
    /\ i' = 1
    /\ pc' = "rows"
    /\ UNCHANGED <<cells, cell, row, in_quotes, readVars, valVars, tabVars,
                   line, delimiter, errors>>

\* read_csv_dicts: one iteration of the loop over the data rows.
DictsRow ==
    /\ pc = "rows"
    /\ mode = "dicts"
    /\ i < Len(rows)
    /\ py_rows' = Append(py_rows, dict_row(rows[1], rows[i + 1]))
    /\ i' = i + 1
    /\ UNCHANGED <<cells, cell, row, in_quotes, readVars, valVars, mode, rows,
                   rules, column_indices, validated_data, line, delimiter,
                   errors, pc>>

\* read_csv_dicts: the loop is over, the records are returned.
DictsDone ==
    /\ pc = "rows"
    /\ mode = "dicts"
    /\ i >= Len(rows)
    /\ pc' = "done"
    /\ UNCHANGED <<tokVars, readVars, valVars, tabVars, line, delimiter, errors>>

NextTab ==
    \/ ValidateEmpty \/ ValidateHeader \/ ValidateRow \/ ValidateDone
    \/ DictsEmpty \/ DictsHeader \/ DictsRow \/ DictsDone

SpecTab == InitTab /\ [][NextTab]_vars

---------------------------------------------------------------------------
(* What the row mappers guarantee *)

Names(header) == {header[j] : j \in 1..Len(header)}

\* Position j is the last one of the header that carries its name.
LastPos(header, j) == \A m \in (j + 1)..Len(header) : header[m] # header[j]

Positions(header, name) == {j \in 1..Len(header) : header[j] = name}

Duplicated(header) == {name \in Names(header) : Cardinality(Positions(header, name)) > 1}

LastOf(header, name) == CHOOSE j \in Positions(header, name) : LastPos(header, j)

IsPrefix(s, t) == Len(s) <= Len(t) /\ \A n \in 1..Len(s) : s[n] = t[n]

\* The outcome of cell j of data row k on its own: validated against the
\* rule of the name at position j, or trimmed when the name has no rule.
CellOutcome(k, j) ==
    LET name == rows[1][j]
        text == rows[k + 1][j]
    IN IF name \in DOMAIN rules
       THEN validate_value(text, rules[name], k, name, <<>>)
       ELSE [validated |-> Str(Trimmed(text)), errors |-> <<>>]

RECURSIVE RowErrors(_, _)
\* The errors of data row k from header position j on, by position.
RowErrors(k, j) ==
    IF j > Cols(rows[1], rows[k + 1]) THEN <<>>
    ELSE CellOutcome(k, j).errors \o RowErrors(k, j + 1)

RECURSIVE TableErrors(_)
\* The errors of the first n data rows, by row and then by position.
TableErrors(n) == IF n = 0 THEN <<>> ELSE TableErrors(n - 1) \o RowErrors(n, 1)

\* The typed value or the record value the claim gives to header position j
\* of data row k.
Expected(k, j) ==
    IF mode = "validate"
    THEN IF j <= Len(rows[k + 1]) THEN CellOutcome(k, j).validated ELSE None
    ELSE IF j <= Len(rows[k + 1]) THEN Str(rows[k + 1][j]) ELSE Str(<<>>)

Output == IF mode = "validate" THEN validated_data ELSE py_rows

\* Every error of the list belongs to a cell the row has: none is due to a
\* missing cell.
NoErrorForAbsence ==
    \A k \in 1..Len(validated_data) :
        Cardinality({n \in 1..Len(errors) : errors[n].row_index = k})
          = Cardinality({j \in 1..Cols(rows[1], rows[k + 1]) :
                            CellOutcome(k, j).errors # <<>>})

Mapping(onlyLast) ==
    /\ \A k \in 1..Len(Output) :
          /\ DOMAIN Output[k] = Names(rows[1])
          /\ \A j \in 1..Len(rows[1]) :
                (onlyLast => LastPos(rows[1], j))
                    => Output[k][rows[1][j]] = Expected(k, j)
    /\ mode = "validate" => NoErrorForAbsence

\* C7, as stated: for every data row and every header position j, the output
\* maps header[j] to the result for row[j] when the row has a cell j and to
\* the padding value (null under validation, the empty string in records)
\* when it has not; cells past the header are ignored and padding appends no
\* error.
C7_Original == Mapping(FALSE)

\* C7, amended: the same for every header position j that is the last
\* position carrying its name.
C7_Amended == Mapping(TRUE)

\* Header [A,B,C] and the row [" 7"], B and C with a rule: {A: 7, B: null,
\* C: null} and no error.
C7_Witness ==
    /\ mode = "validate"
    /\ pc = "done"
    /\ rows = << <<NameA, NameB, NameC>>, << <<" ", "7">> >> >>
    /\ {NameB, NameC} \subseteq DOMAIN rules
    /\ validated_data = << (NameA :> Num(Fin(7, 0))) @@ (NameB :> None) @@ (NameC :> None) >>
    /\ errors = <<>>

Max0(n) == IF n < 0 THEN 0 ELSE n

C8_State ==
    mode = "validate" =>
        /\ pc = "done" => Len(validated_data) = Max0(Len(rows) - 1)
        /\ pc = "rows" => Len(validated_data) = i - 1
        /\ (pc = "done" /\ Len(rows) <= 1) => (validated_data = <<>> /\ errors = <<>>)
        /\ \A k \in 1..Len(validated_data) :
              validated_data[k] = validate_row(rows[1], rows[k + 1], rules, k, <<>>).dict
        /\ errors = TableErrors(Len(validated_data))
        /\ \A n \in 1..Len(errors) :
              /\ errors[n].row_index \in 1..(Len(rows) - 1)
              /\ errors[n].column \in Names(rows[1]) \cap DOMAIN rules
              /\ \E j \in 1..Len(rows[errors[n].row_index + 1]) :
                    errors[n].value = rows[errors[n].row_index + 1][j]
              /\ \A m \in 1..(n - 1) : errors[m].row_index <= errors[n].row_index

C8_AppendOnly ==
    [][IsPrefix(errors, errors') /\ IsPrefix(validated_data, validated_data')]_vars

\* C8: validation drops and reorders no row: n raw rows give max(0, n-1)
\* typed rows, the k-th from the k-th data row (no row and a header alone
\* both give no typed row and no error); the error list only grows at its
\* end, ordered by data row and then by header position; every error's
\* row_index is in 1..n-1, the place of its data row, and its column is a
\* header name with a rule.
C8_NoDrop == [](C8_State) /\ C8_AppendOnly

\* Two data rows, each with an invalid cell: two typed rows and one error
\* for each row, in the order of the rows.
C8_Witness ==
    /\ mode = "validate"
    /\ pc = "done"
    /\ Len(rows) = 3
    /\ Len(validated_data) = 2
    /\ Len(errors) = 2
    /\ errors[1].row_index = 1
    /\ errors[2].row_index = 2

RECURSIVE NatDigits(_)
NatDigits(n) ==
    IF n < 10 THEN <<Digits[n + 1]>>
    ELSE NatDigits(n \div 10) \o <<Digits[(n % 10) + 1]>>

RECURSIVE FracDigits(_, _)
FracDigits(m, e) ==
    IF e = 0 THEN <<>> ELSE FracDigits(m \div 10, e - 1) \o <<Digits[(m % 10) + 1]>>

\* The numeric literal of a double: "7.0", "-0.5", "nan", "inf".
Literal(x) ==
    CASE x.k = "nan" -> <<"n", "a", "n">>
      [] x.k = "inf" -> (IF x.neg THEN <<"-">> ELSE <<>>) \o <<"i", "n", "f">>
      [] OTHER ->
           LET a == IF x.n < 0 THEN 0 - x.n ELSE x.n
           IN (IF x.n < 0 THEN <<"-">> ELSE <<>>)
                \o NatDigits(a \div Pow10(x.e)) \o <<".">>
                \o (IF x.e = 0 THEN <<"0">> ELSE FracDigits(a % Pow10(x.e), x.e))

\* A typed value written back as text.
ToText(v) ==
    CASE v.t = "none" -> <<>>
      [] v.t = "num" -> Literal(v.x)
      [] OTHER -> v.s

\* The typed rows written back as a raw table under the same header.
WriteBack ==
    IF rows = <<>> THEN <<>>
    ELSE <<rows[1]>> \o [k \in 1..Len(validated_data) |->
                            [j \in 1..Len(rows[1]) |-> ToText(validated_data[k][rows[1][j]])]]

Revalidated == read_and_validate_csv(WriteBack, rules)

\* The typed rows, a null of a column without a rule replaced by "".
NullAsText ==
    [k \in 1..Len(validated_data) |->
        [name \in DOMAIN validated_data[k] |->
            IF validated_data[k][name] = None /\ name \notin DOMAIN rules
            THEN Str(<<>>)
            ELSE validated_data[k][name]]]

\* C9, as stated: the typed rows written back as text (null as "", a number
\* as its literal, a string as itself) under the same header and validated
\* again against the same schema give no error and the same typed rows.
C9_Original ==
    (mode = "validate" /\ pc = "done")
        => (Revalidated.errors = <<>> /\ Revalidated.data = validated_data)

\* C9, amended: they give no error, and the same typed rows except that a
\* null in a column without a rule comes back as the empty string.
C9_Amended ==
    (mode = "validate" /\ pc = "done")
        => (Revalidated.errors = <<>> /\ Revalidated.data = NullAsText)

\* A validation that found an error, produced a number, and padded a column
\* without a rule.
C9_Witness ==
    /\ mode = "validate"
    /\ pc = "done"
    /\ errors # <<>>
    /\ \E k \in 1..Len(validated_data) :
          \E name \in DOMAIN validated_data[k] :
              validated_data[k][name] = None /\ name \notin DOMAIN rules
    /\ \E k \in 1..Len(validated_data) :
          \E name \in DOMAIN validated_data[k] : validated_data[k][name].t = "num"

\* C10: for a name at several header positions, every such position inside
\* the row is validated against the rule of the name and appends its own
\* error when invalid; the output row has one entry for the name, the value
\* written for the last position carrying it (the validated cell inside the
\* row, the padding value beyond it); the index map gives the last position.
C10_Duplicates ==
    mode = "validate" =>
        \A name \in (IF rows = <<>> THEN {} ELSE Duplicated(rows[1])) :
            LET last == LastOf(rows[1], name)
            IN /\ pc # "start" => column_indices[name] = last - 1
               /\ \A k \in 1..Len(validated_data) :
                     /\ validated_data[k][name] =
                           IF last <= Len(rows[k + 1])
                           THEN CellOutcome(k, last).validated
                           ELSE None
                     /\ Cardinality({n \in 1..Len(errors) :
                            errors[n].row_index = k /\ errors[n].column = name})
                          = Cardinality({j \in Positions(rows[1], name) :
                               /\ j <= Len(rows[k + 1])
                               /\ name \in DOMAIN rules
                               /\ ~AllSpace(rows[k + 1][j])
                               /\ ~ValidFor(rules[name], Trimmed(rows[k + 1][j]))})

\* Header [A,A], A a NUMBER, row ["x ", " 7"]: the error of the first
\* position stands beside the value 7 of the second.
C10_Witness ==
    /\ mode = "validate"
    /\ pc = "done"
    /\ rows = << <<NameA, NameA>>, << <<"x", " ">>, <<" ", "7">> >> >>
    /\ validated_data = << NameA :> Num(Fin(7, 0)) >>
    /\ errors = << Error(1, NameA, <<"x", " ">>, MsgNumber) >>
    /\ column_indices = NameA :> 1

=============================================================================
